---- MODULE Spec2Model ----
(***************************************************************************)
(* Model of src/main.py: the Friday GEO API.  One single-threaded asyncio  *)
(* event loop serves GET|HEAD /, GET /health and POST /analyze.  A string  *)
(* is modelled as a prefix of a named text: [body, len]; slicing s[:n]     *)
(* keeps the body and caps the length.  A JSON text is a token sequence.   *)
(***************************************************************************)
EXTENDS Integers, Sequences, FiniteSets, TLC

\* ---------------------------------------------------------------- bounds
MaxReq == 2
MaxOver == 1

\* ------------------------------------------------------ program constants
TextCap == 8000
PromptCap == 10000
StatusOK == 200
StatusError == 500

Reqs == 1..MaxReq
\* The event loop runs at most one handler: {} when free, {r} when busy.
NoLoop == {}

Min(a, b) == IF a <= b THEN a ELSE b

\* ---------------------------------------------------------------- strings
PageLens == {0, 1, TextCap, TextCap + 1, PromptCap, PromptCap + MaxOver}

Slice(s, n) == [s EXCEPT !.len = Min(s.len, n)]
NoStr == [body |-> "<unset>", len |-> 0]
SentinelEmpty == [body |-> "", len |-> 0]
Sentinel == [body |-> "Could not retrieve site content.", len |-> 32]

\* ------------------------------------------------------------------ inputs
Urls == {"example.com"}
Questions == {"How do we compare?"}
CompetitorChoices ==
    { <<>>, <<"foo.com">>, <<"a.com", "b.com", "c.com", "d.com">> }
AnalyzeRequest ==
    [kind : {"analyze"}, url : Urls, competitors : CompetitorChoices,
     question : Questions]
ProbeRequest ==
    [kind : {"root", "health"}, url : {""}, competitors : {<<>>},
     question : {""}]
NoReq == [kind |-> "none", url |-> "", competitors |-> <<>>, question |-> ""]

\* -------------------------------------------------------------------- JSON
JObject(ms) == [type |-> "object", members |-> ms, atom |-> ""]
JAtom(t) == [type |-> "atom", members |-> {}, atom |-> t]
NoBody == [type |-> "none", members |-> {}, atom |-> ""]

StringToks == {"answer", "entities", "comparison", "roadmap", "big_chat", "x", "y"}
ValueToks == StringToks \cup {"null", "[e1]", "[cmp]", "[rm]"}

RECURSIVE ParseMembers(_, _, _)
ParseMembers(t, i, acc) ==
    IF i + 3 > Len(t) THEN [ok |-> FALSE, value |-> NoBody]
    ELSE IF ~(t[i] \in StringToks /\ t[i + 1] = ":" /\ t[i + 2] \in ValueToks)
         THEN [ok |-> FALSE, value |-> NoBody]
    ELSE LET acc2 == {m \in acc : m[1] # t[i]} \cup {<<t[i], t[i + 2]>>}
         IN  IF t[i + 3] = "}"
             THEN IF i + 3 = Len(t) THEN [ok |-> TRUE, value |-> JObject(acc2)]
                  ELSE [ok |-> FALSE, value |-> NoBody]
             ELSE IF t[i + 3] = ","
                  THEN ParseMembers(t, i + 4, acc2)
                  ELSE [ok |-> FALSE, value |-> NoBody]

JsonLoads(t) ==
    IF Len(t) = 1 /\ t[1] \in ValueToks THEN [ok |-> TRUE, value |-> JAtom(t[1])]
    ELSE IF Len(t) = 2 /\ t[1] = "{" /\ t[2] = "}"
         THEN [ok |-> TRUE, value |-> JObject({})]
    ELSE IF Len(t) >= 1 /\ t[1] = "{" THEN ParseMembers(t, 2, {})
    ELSE [ok |-> FALSE, value |-> NoBody]

FullText ==
    <<"{", "answer", ":", "x", ",", "entities", ":", "[e1]", ",",
      "comparison", ":", "[cmp]", ",", "roadmap", ":", "[rm]", "}">>
BackendTexts ==
    { FullText,
      SubSeq(FullText, 1, 16) \o <<",", "big_chat", ":", "y", "}">>,
      <<"{", "answer", ":", "x", "}">>,
      <<"{", "}">>,
      <<"{", "answer", ":", "x", ",", "answer", ":", "y", "}">>,
      <<"{", "answer", ":", "x", ",", "}">>,
      <<"{", "answer", ":", "x">>,
      <<"not-json">>,
      <<"null">>,
      <<"[e1]">>,
      <<>> }
NoText == <<"<unset>">>

\* -------------------------------------------------------------- exceptions
Exc(ty, m) == [type |-> ty, msg |-> m]
NoExc == Exc("none", "")
\* str(e) at lines 120-121: an ordinary exception prints its message, the
\* HTTPException of line 64 prints as "<status>: <detail>".
StrExc(e) == IF e.type = "HTTPException" THEN "500: " \o e.msg ELSE e.msg

\* --------------------------------------------------------------- responses
JsonResponseTagged(v) ==
    [status |-> StatusOK,
     body |-> IF v.type = "object"
              THEN [v EXCEPT !.members = @ \cup {<<"model", "x">>}]
              ELSE v]
JsonResponse(v) == [status |-> StatusOK, body |-> v]
HTTPException(code, detail) ==
    [status |-> code, body |-> JObject({<<"detail", detail>>})]
HandlerErrorByKind(e) ==
    HTTPException(IF e.type = "JSONDecodeError" THEN 422 ELSE StatusError, StrExc(e))
HandlerError(e) == HTTPException(StatusError, StrExc(e))

RootBody == JObject({<<"message", "Friday GEO API is active. Send POST requests to /analyze">>})
HealthBody == JObject({<<"status", "ok">>})

\* ------------------------------------------------------------------ prompt
ContentForPromptWhole(c) == c
ContentForPrompt(c) == Slice(c, PromptCap)
Contents(rq, c) ==
    [question |-> rq.question, target |-> rq.url,
     competitors |-> rq.competitors, content |-> ContentForPrompt(c)]
NoPrompt == [question |-> "", target |-> "", competitors |-> <<>>, content |-> NoStr]

Call(api, url, contents) == [api |-> api, url |-> url, contents |-> contents]

\* ------------------------------------------------------------------- state
VARIABLES env, loop, pc, req, primary, raw, content, calls, response_text,
          exc, resp

vars == <<env, loop, pc, req, primary, raw, content, calls, response_text,
          exc, resp>>

OutboundWait == {"fc_scrape", "requests_get", "generate_content"}
AfterGetContent == {"generate_content", "returning"}

Init ==
    /\ env \in [GEMINI_API_KEY : BOOLEAN, FIRECRAWL_API_KEY : BOOLEAN]
    /\ loop = NoLoop
    /\ pc = [r \in Reqs |-> "idle"]
    /\ req = [r \in Reqs |-> NoReq]
    /\ primary = [r \in Reqs |-> "none"]
    /\ raw = [r \in Reqs |-> "none"]
    /\ content = [r \in Reqs |-> NoStr]
    /\ calls = [r \in Reqs |-> <<>>]
    /\ response_text = [r \in Reqs |-> NoText]
    /\ exc = [r \in Reqs |-> NoExc]
    /\ resp = [r \in Reqs |-> <<>>]

\* A request arrives on the socket; it waits until the loop runs its handler.
Admit(r) ==
    /\ pc[r] = "idle"
    /\ \E rq \in AnalyzeRequest \cup ProbeRequest : req' = [req EXCEPT ![r] = rq]
    /\ pc' = [pc EXCEPT ![r] = "pending"]
    /\ UNCHANGED <<env, loop, primary, raw, content, calls, response_text, exc, resp>>

root(r) ==
    /\ loop = NoLoop /\ pc[r] = "pending" /\ req[r].kind = "root"
    /\ loop' = {r}
    /\ resp' = [resp EXCEPT ![r] = Append(@, JsonResponse(RootBody))]
    /\ pc' = [pc EXCEPT ![r] = "returning"]
    /\ UNCHANGED <<env, req, primary, raw, content, calls, response_text, exc>>

health(r) ==
    /\ loop = NoLoop /\ pc[r] = "pending" /\ req[r].kind = "health"
    /\ loop' = {r}
    /\ resp' = [resp EXCEPT ![r] = Append(@, JsonResponse(HealthBody))]
    /\ pc' = [pc EXCEPT ![r] = "returning"]
    /\ UNCHANGED <<env, req, primary, raw, content, calls, response_text, exc>>

\* The except clause of analyze (lines 119-121): one HTTPException(500).
Raise(r, e) ==
    /\ exc' = [exc EXCEPT ![r] = e]
    /\ resp' = [resp EXCEPT ![r] = Append(@, HandlerError(e))]
    /\ pc' = [pc EXCEPT ![r] = "returning"]

\* analyze lines 62-115: get_content has returned c; check the credential,
\* build the client and the prompt, and block in generate_content.
Continue(r, c) ==
    /\ content' = [content EXCEPT ![r] = c]
    /\ IF ~env.GEMINI_API_KEY
       THEN /\ Raise(r, Exc("HTTPException", "GEMINI_API_KEY missing."))
            /\ UNCHANGED calls
       ELSE \E o \in {"client_raised", "ok"} :
              IF o = "client_raised"
              THEN /\ Raise(r, Exc("ValueError", "invalid client options"))
                   /\ UNCHANGED calls
              ELSE /\ calls' = [calls EXCEPT ![r] =
                                  Append(@, Call("gemini", "", Contents(req[r], c)))]
                   /\ pc' = [pc EXCEPT ![r] = "generate_content"]
                   /\ UNCHANGED <<exc, resp>>

\* get_content, second try block: issue requests.get (blocking).
FallbackToRequests(r, tag) ==
    /\ primary' = [primary EXCEPT ![r] = tag]
    /\ calls' = [calls EXCEPT ![r] = Append(@, Call("requests", req[r].url, NoPrompt))]
    /\ pc' = [pc EXCEPT ![r] = "requests_get"]

\* analyze lines 57-61 and get_content lines 40-45, up to the first
\* blocking call.
analyze(r) ==
    /\ loop = NoLoop /\ pc[r] = "pending" /\ req[r].kind = "analyze"
    /\ loop' = {r}
    /\ \E o \in {"import_raised", "ctor_raised", "ok"} :
          IF o = "import_raised" THEN FallbackToRequests(r, "import_raised")
          ELSE IF ~env.FIRECRAWL_API_KEY THEN FallbackToRequests(r, "key_absent")
          ELSE IF o = "ctor_raised" THEN FallbackToRequests(r, "ctor_raised")
          ELSE /\ calls' = [calls EXCEPT ![r] = Append(@, Call("firecrawl", req[r].url, NoPrompt))]
               /\ pc' = [pc EXCEPT ![r] = "fc_scrape"]
               /\ UNCHANGED primary
    /\ UNCHANGED <<env, req, raw, content, response_text, exc, resp>>

\* What fc.scrape may hand back: a mapping (with or without markdown) or an
\* object without a get method.
ScrapeResults ==
    [kind : {"dict"}, markdown : PageLens, repr : {1, PromptCap + MaxOver}]
    \cup [kind : {"object"}, markdown : {0}, repr : {1}]

PrimaryReturnsIfMarkdown(res) == res.kind = "dict" /\ res.markdown > 0
\* Line 46 evaluates without raising.
PrimaryReturns(res) == res.kind = "dict"

\* Line 46: result.get('markdown', '') or str(result)
ResultText(res) ==
    IF res.markdown > 0 THEN [body |-> "firecrawl.markdown", len |-> res.markdown]
    ELSE [body |-> "str(result)", len |-> res.repr]

\* fc.scrape comes back (lines 45-48), then either the return of line 46 or
\* the fallback of lines 50-51.
scrape_done(r) ==
    /\ loop = {r} /\ pc[r] = "fc_scrape"
    /\ \/ /\ FallbackToRequests(r, "scrape_raised")
          /\ UNCHANGED <<content, exc, resp>>
       \/ \E res \in ScrapeResults :
            IF PrimaryReturns(res)
            THEN /\ primary' = [primary EXCEPT ![r] = "returned_" \o res.kind]
                 /\ Continue(r, ResultText(res))
            ELSE /\ FallbackToRequests(r, "returned_" \o res.kind)
                 /\ UNCHANGED <<content, exc, resp>>
    /\ UNCHANGED <<env, loop, req, raw, response_text>>

\* requests.get comes back (lines 51-54).
requests_done(r) ==
    /\ loop = {r} /\ pc[r] = "requests_get"
    /\ \/ \E o \in {"raised", "timeout"} :
            /\ raw' = [raw EXCEPT ![r] = o]
            /\ Continue(r, Sentinel)
       \/ \E n \in PageLens :
            /\ raw' = [raw EXCEPT ![r] = "returned"]
            /\ Continue(r, Slice([body |-> "res.text", len |-> n], TextCap))
    /\ UNCHANGED <<env, loop, req, primary, response_text>>

\* generate_content comes back (lines 106-121).
generate_done(r) ==
    /\ loop = {r} /\ pc[r] = "generate_content"
    /\ \/ /\ \E e \in {Exc("ServerError", "503 UNAVAILABLE"),
                       Exc("ReadTimeout", "The read operation timed out")} :
                Raise(r, e)
          /\ UNCHANGED response_text
       \/ \E t \in BackendTexts :
            /\ response_text' = [response_text EXCEPT ![r] = t]
            /\ LET p == JsonLoads(t)
               IN  IF p.ok
                   THEN /\ resp' = [resp EXCEPT ![r] = Append(@, JsonResponse(p.value))]
                        /\ pc' = [pc EXCEPT ![r] = "returning"]
                        /\ UNCHANGED exc
                   ELSE Raise(r, Exc("JSONDecodeError", "Expecting value"))
    /\ UNCHANGED <<env, loop, req, primary, raw, content, calls>>

\* The framework writes the response; the request's locals die with it and
\* the loop takes the next task.
SendResponse(r) ==
    /\ loop = {r} /\ pc[r] = "returning"
    /\ loop' = NoLoop
    /\ pc' = [pc EXCEPT ![r] = "idle"]
    /\ req' = [req EXCEPT ![r] = NoReq]
    /\ primary' = [primary EXCEPT ![r] = "none"]
    /\ raw' = [raw EXCEPT ![r] = "none"]
    /\ content' = [content EXCEPT ![r] = NoStr]
    /\ calls' = [calls EXCEPT ![r] = <<>>]
    /\ response_text' = [response_text EXCEPT ![r] = NoText]
    /\ exc' = [exc EXCEPT ![r] = NoExc]
    /\ resp' = [resp EXCEPT ![r] = <<>>]
    /\ UNCHANGED env

Next ==
    \E r \in Reqs :
        \/ Admit(r)
        \/ root(r)
        \/ health(r)
        \/ analyze(r)
        \/ scrape_done(r)
        \/ requests_done(r)
        \/ generate_done(r)
        \/ SendResponse(r)

Spec == Init /\ [][Next]_vars
\* ================================================================ claims
IsAnalyze(r) == req[r].kind = "analyze"
ScrapeCalls(r) ==
    {i \in 1..Len(calls[r]) : calls[r][i].api \in {"firecrawl", "requests"}}
ScrapedUrls(r) == {calls[r][i].url : i \in ScrapeCalls(r)}
RawAttempted(r) == \E i \in 1..Len(calls[r]) : calls[r][i].api = "requests"
PrimaryAttempted(r) == \E i \in 1..Len(calls[r]) : calls[r][i].api = "firecrawl"
GenerateCalls(r) == {i \in 1..Len(calls[r]) : calls[r][i].api = "gemini"}
Keys(v) == {m[1] : m \in v.members}
ParsesAsJson(r) == response_text[r] # NoText /\ JsonLoads(response_text[r]).ok

\* C1: while GEMINI_API_KEY is absent, an /analyze request issues no scrape
\* call (neither Firecrawl nor the raw fetch) and its response is HTTP 500.
C1_NoScrapeWithoutCredential ==
    \A r \in Reqs :
        IsAnalyze(r) /\ ~env.GEMINI_API_KEY =>
            /\ ScrapeCalls(r) = {}
            /\ pc[r] = "returning" => resp[r][1].status = 500

\* C2: every failure inside /analyze (credential missing, client
\* construction, the generative call raising or timing out, unparseable
\* backend text) yields exactly one response, with status 500 and a detail
\* carrying the exception's message; a failed request never gets another
\* status.
ExpectedDetail(e) ==
    IF e.type = "HTTPException" THEN "500: GEMINI_API_KEY missing." ELSE e.msg
C2_Failed(r) ==
    \/ exc[r] # NoExc
    \/ ~env.GEMINI_API_KEY
    \/ response_text[r] # NoText /\ ~JsonLoads(response_text[r]).ok
C2_UniformError ==
    \A r \in Reqs :
        IsAnalyze(r) /\ pc[r] = "returning" =>
            /\ Len(resp[r]) = 1
            /\ resp[r][1].status \in {200, 500}
            /\ C2_Failed(r) =>
                 /\ exc[r] # NoExc
                 /\ resp[r][1].status = 500
                 /\ resp[r][1].body.type = "object"
                 /\ resp[r][1].body.members = {<<"detail", ExpectedDetail(exc[r])>>}
C2_Witness ==
    \E r \in Reqs :
        /\ IsAnalyze(r) /\ pc[r] = "returning"
        /\ response_text[r] = <<"not-json">>
        /\ exc[r].type = "JSONDecodeError"
        /\ resp[r][1].status = 500

\* C3: with the credential present and backend text that parses as JSON,
\* the response is 200 and its body is the parsed JSON: every member of the
\* body occurs in the text as key : value, every key of the text is a key of
\* the body, and a scalar text is relayed as that scalar.
C3_BodyIsBackendJson ==
    \A r \in Reqs :
        IsAnalyze(r) /\ pc[r] = "returning" /\ env.GEMINI_API_KEY /\ ParsesAsJson(r) =>
            LET t == response_text[r]
                b == resp[r][1].body
            IN  /\ Len(resp[r]) = 1
                /\ resp[r][1].status = 200
                /\ b = JsonLoads(t).value
                /\ IF t[1] = "{"
                   THEN /\ b.type = "object"
                        /\ \A m \in b.members :
                             \E i \in 1..(Len(t) - 2) :
                                t[i] = m[1] /\ t[i + 1] = ":" /\ t[i + 2] = m[2]
                        /\ \A i \in 1..(Len(t) - 1) :
                             t[i + 1] = ":" => t[i] \in Keys(b)
                   ELSE b.type = "atom" /\ b.atom = t[1]
C3_Witness ==
    \E r \in Reqs :
        /\ IsAnalyze(r) /\ pc[r] = "returning"
        /\ response_text[r] = FullText
        /\ content[r].body = "firecrawl.markdown"
        /\ resp[r][1].status = 200
        /\ Keys(resp[r][1].body) = {"answer", "entities", "comparison", "roadmap"}

\* C4: with the credential present, whatever JSON text the backend returns,
\* the response body is an object with at least the keys answer, entities,
\* comparison and roadmap.
C4_RequiredKeys ==
    \A r \in Reqs :
        IsAnalyze(r) /\ pc[r] = "returning" /\ env.GEMINI_API_KEY /\ ParsesAsJson(r) =>
            /\ resp[r][1].body.type = "object"
            /\ {"answer", "entities", "comparison", "roadmap"} \subseteq Keys(resp[r][1].body)

\* C5: get_content always hands a string back to analyze; when the primary
\* scraper failed and the raw fetch failed too, that string is the sentinel;
\* and a request whose primary scraper failed still issues the generative
\* call unless the credential is missing or the client cannot be built.
PrimaryFailed(r) ==
    primary[r] \in {"import_raised", "key_absent", "ctor_raised", "scrape_raised",
                    "returned_object"}
C5_NeverRaises ==
    \A r \in Reqs :
        IsAnalyze(r) /\ pc[r] \in AfterGetContent =>
            /\ content[r] # NoStr
            /\ content[r].body \in {"firecrawl.markdown", "str(result)", "res.text",
                                    "Could not retrieve site content."}
            /\ PrimaryFailed(r) /\ raw[r] \in {"raised", "timeout"} =>
                 content[r] = [body |-> "Could not retrieve site content.", len |-> 32]
            /\ PrimaryFailed(r) /\ env.GEMINI_API_KEY /\ exc[r].type # "ValueError" =>
                 GenerateCalls(r) # {}
            /\ exc[r].type \in {"none", "HTTPException", "ValueError", "ServerError",
                                "ReadTimeout", "JSONDecodeError"}
C5_Witness ==
    \E r \in Reqs :
        /\ IsAnalyze(r) /\ pc[r] = "generate_content"
        /\ primary[r] = "scrape_raised" /\ raw[r] = "timeout"
        /\ content[r].body = "Could not retrieve site content."

\* C6: on every return path of get_content the returned text is at most
\* 8000 characters long.
C6_TruncatedEverywhere ==
    \A r \in Reqs :
        IsAnalyze(r) /\ pc[r] \in AfterGetContent => content[r].len <= 8000

\* C7: by the time of the generative call, the scraped URLs are exactly the
\* target and the first min(k, 2) competitors.
C7_FanOut ==
    \A r \in Reqs :
        IsAnalyze(r) /\ pc[r] = "generate_content" =>
            LET cs == req[r].competitors
            IN  ScrapedUrls(r) = {req[r].url} \cup {cs[i] : i \in 1..Min(Len(cs), 2)}

\* C8: while an /analyze handler waits on an outbound call it does not hold
\* the event loop, so the handler of any other admitted request can run.
C8_LoopFreeWhileWaiting ==
    \A r \in Reqs :
        pc[r] \in OutboundWait =>
            /\ loop # {r}
            /\ \A q \in Reqs :
                 pc[q] = "pending" => ENABLED (root(q) \/ health(q) \/ analyze(q))

\* C9 as stated: the raw fetch is issued exactly when the Firecrawl import
\* or scrape raised or FIRECRAWL_API_KEY is absent; whenever the scrape
\* returns without raising, no raw fetch is issued; the primary scraper is
\* never attempted after the raw fetch.
NoPrimaryAfterRaw(r) ==
    \A i, j \in 1..Len(calls[r]) :
        i < j => ~(calls[r][i].api = "requests" /\ calls[r][j].api = "firecrawl")
C9_Original ==
    \A r \in Reqs :
        IsAnalyze(r) =>
            /\ RawAttempted(r) <=>
                 primary[r] \in {"import_raised", "scrape_raised", "key_absent"}
            /\ primary[r] \in {"returned_dict", "returned_object"} => ~RawAttempted(r)
            /\ NoPrimaryAfterRaw(r)

\* C9 amended: the raw fetch is issued exactly when the primary try block
\* did not return: the import, the Firecrawl constructor, the scrape or the
\* reading of the scrape result raised, or FIRECRAWL_API_KEY is absent; when
\* the primary block returns, its value is get_content's result and no raw
\* fetch is issued; the primary scraper is never attempted after the raw
\* fetch.
C9_FallbackOrdering ==
    \A r \in Reqs :
        IsAnalyze(r) =>
            /\ RawAttempted(r) <=> PrimaryFailed(r)
            /\ primary[r] = "returned_dict" =>
                 /\ ~RawAttempted(r)
                 /\ PrimaryAttempted(r)
                 /\ content[r].body \in {"firecrawl.markdown", "str(result)"}
            /\ primary[r] \in {"import_raised", "key_absent", "ctor_raised"} =>
                 ~PrimaryAttempted(r)
            /\ NoPrimaryAfterRaw(r)
C9_Witness ==
    \E r \in Reqs :
        /\ IsAnalyze(r) /\ pc[r] = "generate_content"
        /\ primary[r] = "returned_object"
        /\ RawAttempted(r) /\ PrimaryAttempted(r)
        /\ raw[r] = "returned"

\* C10: the content placed in the message to the generative backend is a
\* prefix of what get_content returned, of at most 10000 characters.
C10_PromptContentBounded ==
    \A r \in Reqs :
        \A i \in GenerateCalls(r) :
            LET c == calls[r][i].contents.content
            IN  /\ c.body = content[r].body
                /\ c.len <= content[r].len
                /\ c.len <= 10000
                /\ c.len = content[r].len \/ c.len = 10000
C10_Witness ==
    \E r \in Reqs :
        /\ pc[r] = "generate_content"
        /\ content[r].len > 10000
        /\ \E i \in GenerateCalls(r) : calls[r][i].contents.content.len = 10000
====
